---- MODULE Spec2Model ----
(***************************************************************************)
(* A model of app.py: the Drive-folder image analysis pipeline.            *)
(*                                                                         *)
(*   extract_file_ids_from_folder -> per-image loop (fetch, decode, save,  *)
(*   search_google_lens, get_anthropic_analysis) -> create_excel_report    *)
(*   -> cleanup of the temporary files.                                    *)
(*                                                                         *)
(* Text is modelled by TLC strings; Python's None is the string "None".    *)
(* A page body is a sequence of tokens: "P" stands for one occurrence of   *)
(* the literal prefix https://drive.google.com/file/d/ , the members of    *)
(* IdChars for characters of the class [a-zA-Z0-9_-], and "/" for any      *)
(* character outside that class.                                           *)
(***************************************************************************)
EXTENDS Integers, Sequences, FiniteSets, TLC

VARIABLES
  pc,            \* position of main(), or of the function under study
  folder,        \* outcome of requests.get on the folder page
  images,        \* images, the list extract_file_ids_from_folder returned
  idx,           \* i of "for i, image in enumerate(images)"
  results,       \* results, the list of ImageResult dictionaries
  temp_files,    \* temp_files, the set of tracked transient paths
  disk,          \* the transient files that exist on disk
  progressLog,   \* every value handed to st.progress / progress_bar.progress
  ui,            \* what the user has been shown: st.error / st.success / link
  calls,         \* per processed image: what was fetched, searched, summarised
  lensResponse,  \* the response of the visual search service under study
  lens_results,  \* the value search_google_lens returned
  rowOutcomes,   \* per data row: where (if anywhere) writing the row raised
  sheet,         \* the worksheet create_excel_report built
  saved          \* "none" before wb.save, then "ok" or "failed"

vars == <<pc, folder, images, idx, results, temp_files, disk, progressLog, ui,
          calls, lensResponse, lens_results, rowOutcomes, sheet, saved>>

None == "None"

-----------------------------------------------------------------------------
(* Bounds of the model.                                                    *)

MaxBody == 7
MaxMatches == 17
MaxResults == 3
MaxProgressImages == 70

-----------------------------------------------------------------------------
(* extract_file_ids_from_folder                                            *)

IdChars == {"a", "b"}
Tokens == IdChars \cup {"P", "/"}

RECURSIVE RunEnd(_, _)
\* The last index of the maximal run of identifier characters that starts at
\* index i of body (i - 1 when there is none): the greedy "+" of the pattern.
RunEnd(body, i) ==
  IF i <= Len(body) /\ body[i] \in IdChars THEN RunEnd(body, i + 1) ELSE i - 1

RECURSIVE Join(_)
Join(chars) == IF chars = <<>> THEN "" ELSE Head(chars) \o Join(Tail(chars))

RECURSIVE FindAllFrom(_, _)
\* re.findall(pattern, text): the captured groups of the non-overlapping
\* matches, scanning left to right.
FindAllFrom(body, i) ==
  IF i > Len(body) THEN <<>>
  ELSE IF body[i] = "P" /\ RunEnd(body, i + 1) > i
       THEN <<Join(SubSeq(body, i + 1, RunEnd(body, i + 1)))>>
              \o FindAllFrom(body, RunEnd(body, i + 1) + 1)
       ELSE FindAllFrom(body, i + 1)

FindAll(body) == FindAllFrom(body, 1)

ToSet(seq) == {seq[k] : k \in DOMAIN seq}

\* list(set(...)): the members once each, in an order the program does not fix.
ListOfSet(S) ==
  {s \in [1 .. Cardinality(S) -> S] : \A a, b \in 1 .. Cardinality(S) : a # b => s[a] # s[b]}

DedupFlawed(found) == {found}

Dedup(found) == ListOfSet(ToSet(found))

ImageRef(file_id) ==
  [id |-> file_id,
   url |-> "https://drive.google.com/uc?id=" \o file_id,
   name |-> "image_" \o file_id \o ".jpg"]

\* The values extract_file_ids_from_folder can return for a folder fetch.
ExtractFileIds(fetch) ==
  IF fetch.raises THEN {<<>>}
  ELSE {[k \in DOMAIN file_ids |-> ImageRef(file_ids[k])] : file_ids \in Dedup(FindAll(fetch.text))}

ExtractErrors(fetch) == IF fetch.raises THEN <<"Error extracting file IDs">> ELSE <<>>

Bodies == UNION {[1 .. n -> Tokens] : n \in 0 .. MaxBody}

FolderFetches ==
  {[raises |-> TRUE, text |-> <<>>]} \cup {[raises |-> FALSE, text |-> b] : b \in Bodies}

NoFetch == [raises |-> FALSE, text |-> <<>>]

NoResponse == [raises |-> FALSE, status |-> 0, json_ok |-> FALSE, json |-> <<>>]

NoSheet == [cells |-> <<>>, images |-> {}, widths |-> <<>>]

Quiet ==
  /\ idx = 0 /\ results = <<>> /\ temp_files = {} /\ disk = {}
  /\ progressLog = <<>> /\ ui = <<>> /\ calls = <<>>
  /\ rowOutcomes = <<>> /\ sheet = NoSheet /\ saved = "none"

InitExtract ==
  /\ pc = "call"
  /\ folder \in FolderFetches
  /\ images = <<>>
  /\ lensResponse = NoResponse /\ lens_results = <<>>
  /\ Quiet

ExtractCall ==
  /\ pc = "call"
  /\ \E imgs \in ExtractFileIds(folder) : images' = imgs
  /\ ui' = ui \o ExtractErrors(folder)
  /\ pc' = "returned"
  /\ UNCHANGED <<folder, idx, results, temp_files, disk, progressLog, calls,
                 lensResponse, lens_results, rowOutcomes, sheet, saved>>

SpecExtract == InitExtract /\ [][ExtractCall]_vars

\* The identifiers of a body, read off the pattern without scanning: every
\* prefix that is followed by an identifier character starts a match, whose
\* group is the maximal run of identifier characters after it.
MatchStarts(body) ==
  {j \in 1 .. Len(body) - 1 : body[j] = "P" /\ body[j + 1] \in IdChars}

IdentifierAt(body, j) ==
  LET last == CHOOSE e \in j + 1 .. Len(body) :
                /\ \A k \in j + 1 .. e : body[k] \in IdChars
                /\ (e = Len(body) \/ body[e + 1] \notin IdChars)
  IN Join(SubSeq(body, j + 1, last))

DistinctIdentifiers(body) == {IdentifierAt(body, j) : j \in MatchStarts(body)}

\* C6: for a folder page with K distinct file identifiers the extractor returns
\* exactly K ImageRef entries with pairwise distinct ids, however often each
\* identifier occurs; each entry's url is https://drive.google.com/uc?id=<id>
\* and its name image_<id>.jpg.
C6_DistinctImageRefs ==
  (pc = "returned" /\ ~folder.raises) =>
    /\ Len(images) = Cardinality(DistinctIdentifiers(folder.text))
    /\ {images[k].id : k \in DOMAIN images} = DistinctIdentifiers(folder.text)
    /\ \A a, b \in DOMAIN images : a # b => images[a].id # images[b].id
    /\ \A k \in DOMAIN images :
         /\ images[k].url = "https://drive.google.com/uc?id=" \o images[k].id
         /\ images[k].name = "image_" \o images[k].id \o ".jpg"

\* A page on which one identifier occurs twice and another one once.
C6_Witness ==
  /\ pc = "returned" /\ ~folder.raises
  /\ Cardinality(MatchStarts(folder.text)) = 3
  /\ Len(images) = 2

-----------------------------------------------------------------------------
(* search_google_lens                                                      *)

VisualMatchLimit == 15

MatchKeys == {"position", "title", "source", "price", "extracted_price", "currency"}

\* dict.get(key, default) on a dictionary modelled as a function.
Get(d, key, default) == IF key \in DOMAIN d THEN d[key] ELSE default

\* seq[:n]
Take(seq, n) == SubSeq(seq, 1, IF Len(seq) < n THEN Len(seq) ELSE n)

FirstMatchesFlawed(visual_matches) == Take(visual_matches, VisualMatchLimit + 1)

FirstMatches(visual_matches) == Take(visual_matches, VisualMatchLimit)

FilteredEntry(match) ==
  [position |-> Get(match, "position", None),
   title |-> Get(match, "title", None),
   source |-> Get(match, "source", None),
   price |-> Get(match, "price", "N/A"),
   extracted_price |-> Get(match, "extracted_price", "0.0"),
   currency |-> Get(match, "currency", "N/A")]

\* Whether the try block of search_google_lens raises: requests.get fails,
\* raise_for_status rejects the status, or the body is not JSON.
LensRaises(resp) == resp.raises \/ resp.status >= 400 \/ ~resp.json_ok

SearchGoogleLens(resp) ==
  IF LensRaises(resp) THEN <<>>
  ELSE LET visual_matches == FirstMatches(Get(resp.json, "visual_matches", <<>>))
       IN [k \in DOMAIN visual_matches |-> FilteredEntry(visual_matches[k])]

LensErrors(resp) == IF LensRaises(resp) THEN <<"Error in Google Lens search">> ELSE <<>>

\* The keys the k-th entry of a response of a given shape carries.
KeyShapes ==
  <<MatchKeys, {"position", "title", "source"}, {"title", "price", "currency"}, {}>>

RawMatch(k, shape) ==
  [key \in KeyShapes[((k + shape) % 4) + 1] |->
     IF key = "position" THEN ToString(k) ELSE key \o "-" \o ToString(k)]

VisualMatches(m, shape) == [k \in 1 .. m |-> RawMatch(k, shape)]

OkResponse(json) == [raises |-> FALSE, status |-> 200, json_ok |-> TRUE, json |-> json]

LensFailures ==
  {[raises |-> TRUE, status |-> 0, json_ok |-> FALSE, json |-> <<>>],
   [raises |-> FALSE, status |-> 500, json_ok |-> TRUE, json |-> <<>>],
   [raises |-> FALSE, status |-> 200, json_ok |-> FALSE, json |-> <<>>]}

LensResponses ==
  LensFailures
    \cup {OkResponse([error |-> "no results"])}
    \cup {OkResponse([visual_matches |-> VisualMatches(m, shape)]) :
            m \in 0 .. MaxMatches, shape \in 0 .. 3}

InitLens ==
  /\ pc = "call"
  /\ lensResponse \in LensResponses
  /\ lens_results = <<>>
  /\ folder = NoFetch /\ images = <<>>
  /\ Quiet

LensCall ==
  /\ pc = "call"
  /\ lens_results' = SearchGoogleLens(lensResponse)
  /\ ui' = ui \o LensErrors(lensResponse)
  /\ pc' = "returned"
  /\ UNCHANGED <<folder, images, idx, results, temp_files, disk, progressLog, calls,
                 lensResponse, rowOutcomes, sheet, saved>>

SpecLens == InitLens /\ [][LensCall]_vars

\* The visual_matches array of the response under study.
ResponseMatches ==
  IF "visual_matches" \in DOMAIN lensResponse.json
  THEN lensResponse.json.visual_matches ELSE <<>>

\* C10: search_google_lens returns at most 15 records: the first 15 entries of
\* visual_matches in their order when there are more, all m entries when
\* m <= 15; each is the entry's position/title/source/price/extracted_price/
\* currency, the last three "N/A", 0.0, "N/A" when absent.
C10_FirstFifteen ==
  (pc = "returned" /\ ~LensRaises(lensResponse)) =>
    /\ Len(lens_results) <= 15
    /\ Len(ResponseMatches) > 15 => Len(lens_results) = 15
    /\ Len(ResponseMatches) <= 15 => Len(lens_results) = Len(ResponseMatches)
    /\ \A k \in DOMAIN lens_results :
         LET raw == ResponseMatches[k]
             rec == lens_results[k]
         IN /\ DOMAIN rec = MatchKeys
            /\ \A key \in DOMAIN raw : rec[key] = raw[key]
            /\ "position" \notin DOMAIN raw => rec.position = None
            /\ "title" \notin DOMAIN raw => rec.title = None
            /\ "source" \notin DOMAIN raw => rec.source = None
            /\ "price" \notin DOMAIN raw => rec.price = "N/A"
            /\ "extracted_price" \notin DOMAIN raw => rec.extracted_price = "0.0"
            /\ "currency" \notin DOMAIN raw => rec.currency = "N/A"

\* A response with more than 15 matches was searched, and a returned record
\* took its defaults.
C10_Witness ==
  /\ pc = "returned" /\ ~LensRaises(lensResponse)
  /\ Len(ResponseMatches) > 15
  /\ Len(lens_results) = 15
  /\ \E k \in DOMAIN lens_results : "price" \notin DOMAIN ResponseMatches[k]

-----------------------------------------------------------------------------
(* create_excel_report                                                     *)

Headers == <<"Image", "File Name", "Analysis">>

\* ws.cell(row, column, value): the cell is created if absent, then assigned.
SetCell(cells, r, c, v) ==
  [p \in DOMAIN cells \cup {<<r, c>>} |->
     IF p = <<r, c>>
     THEN [value |-> v, border |-> IF p \in DOMAIN cells THEN cells[p].border ELSE None]
     ELSE cells[p]]

\* cell.border = thin_border on a cell iter_rows creates if absent.
SetBorder(cells, r, c) ==
  [p \in DOMAIN cells \cup {<<r, c>>} |->
     IF p = <<r, c>>
     THEN [value |-> IF p \in DOMAIN cells THEN cells[p].value ELSE None, border |-> "thin"]
     ELSE cells[p]]

RECURSIVE WriteHeaders(_, _)
WriteHeaders(cells, col) ==
  IF col > Len(Headers) THEN cells
  ELSE WriteHeaders(SetCell(cells, 1, col, Headers[col]), col + 1)

\* Where writing a row can raise: in XLImage / add_image (only when the file
\* exists), in assigning the name, in assigning the analysis, or nowhere.
RowOutcomesFor(exists) ==
  {"ok", "name_error", "analysis_error"} \cup (IF exists THEN {"embed_error"} ELSE {})

\* The body of the try block for one row; an assignment that raises leaves the
\* cell it had created empty, and what follows it in the row is skipped.
WriteRow(sh, row_idx, result, exists, outcome) ==
  IF outcome = "embed_error" THEN sh
  ELSE LET withImage == IF exists THEN sh.images \cup {row_idx} ELSE sh.images
           named == SetCell(sh.cells, row_idx, 2,
                            IF outcome = "name_error" THEN None ELSE result.name)
       IN IF outcome = "name_error"
          THEN [sh EXCEPT !.images = withImage, !.cells = named]
          ELSE [sh EXCEPT !.images = withImage,
                          !.cells = SetCell(named, row_idx, 3,
                                            IF outcome = "analysis_error" THEN None
                                            ELSE result.analysis)]

RECURSIVE WriteRowsFlawed(_, _, _, _, _)
WriteRowsFlawed(sh, rs, files, outcomes, k) ==
  IF k > Len(rs) \/ (k > 1 /\ outcomes[k - 1] # "ok") THEN sh
  ELSE WriteRowsFlawed(WriteRow(sh, k + 1, rs[k], rs[k].temp_image_path \in files, outcomes[k]),
                       rs, files, outcomes, k + 1)

RECURSIVE WriteRows(_, _, _, _, _)
\* for row_idx, result in enumerate(results, 2): try ... except: print.
WriteRows(sh, rs, files, outcomes, k) ==
  IF k > Len(rs) THEN sh
  ELSE WriteRows(WriteRow(sh, k + 1, rs[k], rs[k].temp_image_path \in files, outcomes[k]),
                 rs, files, outcomes, k + 1)

RECURSIVE BorderCells(_, _, _, _)
BorderCells(cells, r, c, max_row) ==
  IF r > max_row THEN cells
  ELSE IF c > 3 THEN BorderCells(cells, r + 1, 1, max_row)
  ELSE BorderCells(SetBorder(cells, r, c), r, c + 1, max_row)

ColumnWidths == [A |-> 30, B |-> 30, C |-> 50]

\* The worksheet as it stands when wb.save is called.
BuildSheet(rs, files, outcomes) ==
  LET headed == [cells |-> WriteHeaders(<<>>, 1), images |-> {}, widths |-> <<>>]
      filled == WriteRows(headed, rs, files, outcomes, 1)
  IN [filled EXCEPT !.widths = ColumnWidths,
                    !.cells = BorderCells(filled.cells, 1, 1, Len(rs) + 1)]

\* ws.max_row: the last row that holds a cell.
MaxRow(sh) ==
  IF DOMAIN sh.cells = {} THEN 0
  ELSE CHOOSE r \in {p[1] : p \in DOMAIN sh.cells} : \A p \in DOMAIN sh.cells : p[1] <= r

ReportSuccessFlawed(save_ok) == TRUE

\* The return value of create_excel_report: True when wb.save returned, False
\* from the except clause when it raised.
ReportSuccess(save_ok) == save_ok

Sentinel == "Error in generating analysis"

ResultPool ==
  {[name |-> "image_a.jpg", temp_image_path |-> "temp_image_a.png",
    analysis |-> "Price range: 5-9 USD"],
   [name |-> "image_b.jpg", temp_image_path |-> "temp_image_b.png",
    analysis |-> Sentinel]}

ResultLists == UNION {[1 .. n -> ResultPool] : n \in 0 .. MaxResults}

\* The choices of a per-row outcome for every row of a result list.
OutcomeChoices(rs, files) ==
  {o \in [DOMAIN rs -> {"ok", "name_error", "analysis_error", "embed_error"}] :
     \A k \in DOMAIN rs : o[k] \in RowOutcomesFor(rs[k].temp_image_path \in files)}

InitReport ==
  /\ pc = "call"
  /\ results \in ResultLists
  /\ disk \in SUBSET {r.temp_image_path : r \in ResultPool}
  /\ folder = NoFetch /\ images = <<>>
  /\ lensResponse = NoResponse /\ lens_results = <<>>
  /\ idx = 0 /\ temp_files = {} /\ progressLog = <<>> /\ ui = <<>> /\ calls = <<>>
  /\ rowOutcomes = <<>> /\ sheet = NoSheet /\ saved = "none"

ReportCall ==
  /\ pc = "call"
  /\ \E outcomes \in OutcomeChoices(results, disk), save_ok \in BOOLEAN :
       /\ rowOutcomes' = outcomes
       /\ sheet' = BuildSheet(results, disk, outcomes)
       /\ saved' = IF save_ok THEN "ok" ELSE "failed"
       /\ ui' = <<ToString(ReportSuccess(save_ok))>>   \* the value returned
  /\ pc' = "returned"
  /\ UNCHANGED <<folder, images, idx, results, temp_files, disk, progressLog,
                 calls, lensResponse, lens_results>>

SpecReport == InitReport /\ [][ReportCall]_vars

CellValue(r, c) == IF <<r, c>> \in DOMAIN sheet.cells THEN sheet.cells[<<r, c>>].value ELSE None

\* The frame every report has: n+1 rows, the header in row 1, widths 30/30/50.
ReportFrame ==
  /\ MaxRow(sheet) = Len(results) + 1
  /\ CellValue(1, 1) = "Image" /\ CellValue(1, 2) = "File Name" /\ CellValue(1, 3) = "Analysis"
  /\ sheet.widths.A = 30 /\ sheet.widths.B = 30 /\ sheet.widths.C = 50

\* C8 as stated: n+1 populated rows, header first, and for EVERY i the name and
\* analysis of the i-th result in row i+2, widths 30/30/50, also when writing
\* some row failed.
C8_AsStated ==
  pc = "returned" =>
    /\ ReportFrame
    /\ \A k \in DOMAIN results :
         /\ CellValue(k + 1, 2) = results[k].name
         /\ CellValue(k + 1, 3) = results[k].analysis

\* C8 as amended: the sheet has n+1 rows, the header in row 1 and widths
\* 30/30/50; every result whose row was written without a failure has its name
\* and analysis in row i+2, whatever happened to the rows before it; a row
\* whose write failed keeps only what was written before the failure.
C8_RowsWithoutFailure ==
  pc = "returned" =>
    /\ ReportFrame
    /\ \A k \in DOMAIN results :
         /\ rowOutcomes[k] = "ok" =>
              /\ CellValue(k + 1, 2) = results[k].name
              /\ CellValue(k + 1, 3) = results[k].analysis
         /\ rowOutcomes[k] = "analysis_error" =>
              /\ CellValue(k + 1, 2) = results[k].name
              /\ CellValue(k + 1, 3) = None
         /\ rowOutcomes[k] \in {"embed_error", "name_error"} =>
              /\ CellValue(k + 1, 2) = None
              /\ CellValue(k + 1, 3) = None

\* Three results, the first row failed while embedding, the last was written.
C8_Witness ==
  /\ pc = "returned"
  /\ Len(results) = 3
  /\ rowOutcomes[1] = "embed_error"
  /\ rowOutcomes[3] = "ok"
  /\ CellValue(4, 3) = results[3].analysis

-----------------------------------------------------------------------------
(* get_anthropic_analysis                                                  *)

\* A reply of the completion service: error names the exception
\* client.messages.create raised (None when it returned), and otherwise
\* message.content is the string text (is_str) or the list blocks.
TextReply(text) ==
  [error |-> None, is_str |-> FALSE, text |-> None, blocks |-> <<[type |-> "text", text |-> text]>>]

LLMReplies ==
  {[error |-> "APIConnectionError", is_str |-> FALSE, text |-> None, blocks |-> <<>>],
   [error |-> "AuthenticationError", is_str |-> FALSE, text |-> None, blocks |-> <<>>],
   [error |-> None, is_str |-> FALSE, text |-> None, blocks |-> <<>>],
   [error |-> None, is_str |-> FALSE, text |-> None, blocks |-> <<[type |-> "tool_use"]>>],
   [error |-> None, is_str |-> TRUE, text |-> "Common types: mugs", blocks |-> <<>>],
   TextReply("Price range: 5-9 USD")}

\* The exception raised inside the try block of get_anthropic_analysis, None
\* when there is none: the call fails, content[0] does not exist (IndexError)
\* or has no text (AttributeError).
AnalysisException(reply) ==
  IF reply.error # None THEN reply.error
  ELSE IF reply.is_str THEN None
  ELSE IF reply.blocks = <<>> THEN "IndexError"
  ELSE IF "text" \notin DOMAIN reply.blocks[1] THEN "AttributeError"
  ELSE None

GetAnthropicAnalysisFlawed(json_data, reply) ==
  IF AnalysisException(reply) \in {"IndexError", "AttributeError"}
  THEN [raised |-> AnalysisException(reply), value |-> None, errors |-> <<>>]
  ELSE IF AnalysisException(reply) # None
  THEN [raised |-> None, value |-> Sentinel, errors |-> <<"Error in Anthropic API call">>]
  ELSE [raised |-> None, errors |-> <<>>,
        value |-> IF reply.is_str THEN reply.text ELSE reply.blocks[1].text]

\* What a call returns (value) or lets escape (raised), and what it shows.
GetAnthropicAnalysis(json_data, reply) ==
  IF AnalysisException(reply) # None
  THEN [raised |-> None, value |-> Sentinel, errors |-> <<"Error in Anthropic API call">>]
  ELSE [raised |-> None, errors |-> <<>>,
        value |-> IF reply.is_str THEN reply.text ELSE reply.blocks[1].text]

-----------------------------------------------------------------------------
(* main                                                                    *)

ImageProgressFlawed(i, n) == 20 + (60 * i) \div n

\* int(20 + (60 * (i + 1) / len(images))): the quotient of two small integers
\* is exact or has a fraction int() drops, so this is the integer quotient.
ImageProgress(i, n) == 20 + (60 * (i + 1)) \div n

TempPath(image) == "temp_image_" \o image.id \o ".png"

\* requests.get(image['url']): it raises, or answers with a status and a
\* payload that is an image or is not.
ImageFetches ==
  {[raises |-> TRUE, status |-> 0, payload |-> None]}
    \cup {[raises |-> FALSE, status |-> st, payload |-> p] :
            st \in {200, 404}, p \in {"image", "garbage"}}

\* img.convert('RGB').save(temp_path, 'PNG'): done, or failed with or without
\* a partial file left behind.
DiskWrites == {"ok", "fail_nofile", "fail_partial"}

StatusOkFlawed(fetch) == TRUE

StatusOk(fetch) == fetch.status = 200

HasMatchesFlawed(lr) == TRUE

\* if lens_results:
HasMatches(lr) == lr # <<>>

NoImagesFlawed(imgs) == FALSE

\* if not images:
NoImages(imgs) == imgs = <<>>

\* except Exception as e, around one image.
PerImageHandlerCatches(exc) == TRUE

\* The try block of one iteration: exc is the exception it ends with (None
\* when it runs to its end), and the rest is what it did before.
TryImage(image, fetch, write, lens, reply, files, rs) ==
  LET base == [exc |-> None, disk |-> files, results |-> rs, searched |-> <<>>,
               lens |-> <<>>, summarised |-> <<>>, analysis_exc |-> None,
               errors |-> <<>>]
      stored == [base EXCEPT !.disk = files \cup {TempPath(image)}]
      lr == SearchGoogleLens(lens)
      searched == [stored EXCEPT !.searched = <<image.url>>, !.lens = lr,
                                 !.errors = LensErrors(lens)]
      a == GetAnthropicAnalysis(lr, reply)
      asked == [searched EXCEPT !.summarised = <<lr>>, !.errors = @ \o a.errors,
                                !.analysis_exc = AnalysisException(reply)]
  IN IF fetch.raises THEN [base EXCEPT !.exc = "RequestException"]
     ELSE IF ~StatusOk(fetch) THEN base
     ELSE IF fetch.payload # "image" THEN [base EXCEPT !.exc = "UnidentifiedImageError"]
     ELSE IF write = "fail_nofile" THEN [base EXCEPT !.exc = "OSError"]
     ELSE IF write = "fail_partial" THEN [stored EXCEPT !.exc = "OSError"]
     ELSE IF ~HasMatches(lr) THEN searched
     ELSE IF a.raised # None THEN [asked EXCEPT !.exc = a.raised]
     ELSE [asked EXCEPT !.results =
             Append(rs, [name |-> image.name, temp_image_path |-> TempPath(image),
                         analysis |-> a.value])]

CleanupFlawed(tracked, rs, files) == files \ {rs[k].temp_image_path : k \in DOMAIN rs}

\* for temp_file in temp_files: if os.path.exists(temp_file): os.remove(temp_file)
Cleanup(tracked, rs, files) == files \ tracked

Page(ids) == [raises |-> FALSE, text |-> ids]

MainFolderFetches ==
  {[raises |-> TRUE, text |-> <<>>],
   Page(<<>>),
   Page(<<"/", "P", "/">>),
   Page(<<"P", "a", "/">>),
   Page(<<"P", "a", "/", "P", "a">>),
   Page(<<"P", "a", "/", "P", "b", "/", "P", "a">>)}

MainLensResponses ==
  LensFailures
    \cup {OkResponse([error |-> "no results"])}
    \cup {OkResponse([visual_matches |-> VisualMatches(m, 0)]) : m \in {0, 1, VisualMatchLimit + 1}}

\* Where main() stands once done of its n images are processed.
AfterImage(done, n) == IF done >= n THEN "report" ELSE "loop"

Init ==
  /\ pc = "idle"
  /\ folder = NoFetch /\ images = <<>>
  /\ lensResponse = NoResponse /\ lens_results = <<>>
  /\ Quiet

\* progress_bar = st.progress(0)
Start ==
  /\ pc = "idle"
  /\ progressLog' = Append(progressLog, [at |-> "start", value |-> 0])
  /\ pc' = "extract"
  /\ UNCHANGED <<folder, images, idx, results, temp_files, disk, ui, calls,
                 lensResponse, lens_results, rowOutcomes, sheet, saved>>

\* images = extract_file_ids_from_folder(folder_url); progress 20; the
\* "if not images" branch ends the run.
Extract ==
  /\ pc = "extract"
  /\ \E fetch \in MainFolderFetches : \E imgs \in ExtractFileIds(fetch) :
       /\ folder' = fetch
       /\ images' = imgs
       /\ ui' = ui \o ExtractErrors(fetch)
                  \o (IF NoImages(imgs) THEN <<"No images found in the folder">> ELSE <<>>)
       /\ pc' = IF NoImages(imgs) THEN "done" ELSE AfterImage(0, Len(imgs))
  /\ progressLog' = Append(progressLog, [at |-> "extracted", value |-> 20])
  /\ UNCHANGED <<idx, results, temp_files, disk, calls,
                 lensResponse, lens_results, rowOutcomes, sheet, saved>>

\* One iteration of "for i, image in enumerate(images)".
ProcessImage ==
  /\ pc = "loop"
  /\ idx < Len(images)
  /\ \E fetch \in ImageFetches, write \in DiskWrites,
        lens \in MainLensResponses, reply \in LLMReplies :
       LET image == images[idx + 1]
           t == TryImage(image, fetch, write, lens, reply, disk, results)
           escaped == t.exc # None /\ ~PerImageHandlerCatches(t.exc)
       IN /\ progressLog' = Append(progressLog,
                                [at |-> "image", value |-> ImageProgress(idx, Len(images))])
          /\ temp_files' = temp_files \cup {TempPath(image)}
          /\ disk' = t.disk
          /\ results' = t.results
          /\ calls' = Append(calls,
                        [id |-> image.id,
                         fetch |-> IF fetch.raises THEN None ELSE ToString(fetch.status),
                         searched |-> t.searched,
                         lens |-> t.lens,
                         summarised |-> t.summarised,
                         analysis_exc |-> t.analysis_exc,
                         stored |-> TempPath(image) \in t.disk,
                         appended |-> Len(t.results) - Len(results),
                         exc |-> t.exc,
                         escaped |-> escaped])
          /\ ui' = ui \o t.errors
                     \o (IF t.exc = None THEN <<>>
                         ELSE IF escaped THEN <<"An error occurred">>
                         ELSE <<"Error processing image">>)
          /\ pc' = IF escaped THEN "done" ELSE AfterImage(idx + 1, Len(images))
  /\ idx' = idx + 1
  /\ UNCHANGED <<folder, images, lensResponse, lens_results, rowOutcomes, sheet, saved>>

\* "if results:" progress 90, create_excel_report, then the success branch
\* (progress 100, download link) or the failure message.
GenerateReport ==
  /\ pc = "report"
  /\ IF results = <<>>
     THEN UNCHANGED <<progressLog, rowOutcomes, sheet, saved, ui>>
     ELSE \E outcomes \in OutcomeChoices(results, disk), save_ok \in BOOLEAN :
            /\ rowOutcomes' = outcomes
            /\ sheet' = BuildSheet(results, disk, outcomes)
            /\ saved' = IF save_ok THEN "ok" ELSE "failed"
            /\ progressLog' =
                 Append(progressLog, [at |-> "report", value |-> 90])
                   \o (IF ReportSuccess(save_ok)
                       THEN <<[at |-> "complete", value |-> 100]>> ELSE <<>>)
            /\ ui' = ui \o (IF ReportSuccess(save_ok)
                            THEN <<"Download Excel Report", "Report generated successfully!">>
                            ELSE <<"Failed to create Excel report">>)
  /\ pc' = "cleanup"
  /\ UNCHANGED <<folder, images, idx, results, temp_files, disk, calls,
                 lensResponse, lens_results>>

\* The cleanup loop that ends the run.
CleanupTempFiles ==
  /\ pc = "cleanup"
  /\ disk' = Cleanup(temp_files, results, disk)
  /\ pc' = "done"
  /\ UNCHANGED <<folder, images, idx, results, temp_files, progressLog, ui, calls,
                 lensResponse, lens_results, rowOutcomes, sheet, saved>>

Next == Start \/ Extract \/ ProcessImage \/ GenerateReport \/ CleanupTempFiles

Spec == Init /\ [][Next]_vars

-----------------------------------------------------------------------------
(* Properties of a run of main()                                           *)

Ended == pc = "done"

ResultsFor(id) == {j \in DOMAIN results : results[j].temp_image_path = "temp_image_" \o id \o ".png"}

C2_SummarizerFailureKeepsRow ==
  \A k \in DOMAIN calls :
    (calls[k].summarised # <<>> /\ calls[k].analysis_exc # None) =>
      /\ calls[k].exc = None
      /\ calls[k].appended = 1
      /\ Cardinality(ResultsFor(calls[k].id)) = 1
      /\ \A j \in ResultsFor(calls[k].id) :
           results[j].analysis = "Error in generating analysis"

\* The summarizer got a malformed response for one image and an
\* authentication error for another, and both rows exist.
C2_Witness ==
  /\ Len(results) = 2
  /\ \E k \in DOMAIN calls : calls[k].analysis_exc = "IndexError"
  /\ \E k \in DOMAIN calls : calls[k].analysis_exc = "AuthenticationError"

\* C3: for every image of the loop, a match list of length >= 1 means the
\* summarizer was invoked exactly once, with that full list; an empty match
\* list (no matches, or a failed search) means it was never invoked and no
\* ImageResult was appended for the image.
C3_SummarizerIffMatches ==
  \A k \in DOMAIN calls :
    /\ Len(calls[k].lens) >= 1 => calls[k].summarised = <<calls[k].lens>>
    /\ calls[k].lens = <<>> =>
         /\ calls[k].summarised = <<>>
         /\ calls[k].appended = 0
         /\ ResultsFor(calls[k].id) = {}

\* One image was searched without a match, another with the full 15 matches.
C3_Witness ==
  /\ \E k \in DOMAIN calls : calls[k].searched # <<>> /\ calls[k].lens = <<>>
  /\ \E k \in DOMAIN calls : Len(calls[k].lens) = 15 /\ calls[k].appended = 1

NonOk(k) == calls[k].fetch \notin {None, "200"}

FullySucceeded(k) ==
  /\ calls[k].fetch = "200" /\ calls[k].appended = 1 /\ calls[k].analysis_exc = None

\* C4: an image whose fetch answers a non-200 status gets no ImageResult, lets
\* no exception out of its iteration, and the loop goes on to the remaining
\* images; with two images, one non-200 and one fully successful, there is
\* exactly one ImageResult and the report has the header row and one data row.
C4_Non200Skipped ==
  /\ \A k \in DOMAIN calls :
       NonOk(k) =>
         /\ calls[k].appended = 0 /\ ResultsFor(calls[k].id) = {}
         /\ calls[k].exc = None /\ ~calls[k].escaped
         /\ k < Len(images) => pc = "loop" \/ Len(calls) > k
  /\ (Len(images) = 2 /\ pc \in {"cleanup", "done"}
        /\ \E a, b \in DOMAIN calls : NonOk(a) /\ FullySucceeded(b)) =>
       /\ Len(results) = 1
       /\ MaxRow(sheet) = 2
       /\ CellValue(1, 2) = "File Name"
       /\ \A j \in DOMAIN rowOutcomes : rowOutcomes[j] = "ok" =>
            CellValue(2, 2) = results[1].name

\* Two images, the first answered 404, the second succeeded, report saved.
C4_Witness ==
  /\ Ended /\ Len(images) = 2 /\ Len(calls) = 2
  /\ NonOk(1) /\ FullySucceeded(2)
  /\ saved = "ok" /\ MaxRow(sheet) = 2

\* The progress value the claim gives for image i (counted from 0) of n.
ClaimedImageProgress(i, n) == 20 + (60 * (i + 1)) \div n

\* The entry the progress report must hold at place k in a run over n images.
ExpectedProgress(k, n) ==
  IF k = 1 THEN [at |-> "start", value |-> 0]
  ELSE IF k = 2 THEN [at |-> "extracted", value |-> 20]
  ELSE IF k <= n + 2 THEN [at |-> "image", value |-> ClaimedImageProgress(k - 3, n)]
  ELSE IF k = n + 3 THEN [at |-> "report", value |-> 90]
  ELSE [at |-> "complete", value |-> 100]

\* C5: the reported percentages never decrease and stay in 0..100: 0 at the
\* start, 20 after extraction, 20 + 60*(i+1)/N truncated for image i of N
\* (80 on the last image), 90 when report generation starts, 100 at
\* completion; the per-image values never decrease for any N up to
\* MaxProgressImages.
C5_ProgressMonotone ==
  /\ Len(progressLog) <= Len(images) + 4
  /\ \A k \in DOMAIN progressLog :
       /\ progressLog[k] = ExpectedProgress(k, Len(images))
       /\ progressLog[k].value \in 0 .. 100
       /\ k > 1 => progressLog[k - 1].value <= progressLog[k].value
  /\ (pc \in {"report", "cleanup", "done"} /\ images # <<>>) =>
       progressLog[Len(images) + 2].value = 80
  /\ (\E k \in DOMAIN progressLog : progressLog[k].at = "report") <=>
       (pc \in {"cleanup", "done"} /\ results # <<>>)
  /\ (\E k \in DOMAIN progressLog : progressLog[k].at = "complete") <=> saved = "ok"
  /\ \A n \in 1 .. MaxProgressImages :
       /\ ImageProgress(n - 1, n) = 80
       /\ \A i \in 0 .. n - 1 :
            /\ ImageProgress(i, n) >= 20
            /\ i > 0 => ImageProgress(i - 1, n) <= ImageProgress(i, n)

\* A complete run over two images reported 0, 20, 50, 80, 90, 100.
C5_Witness ==
  /\ Ended
  /\ Len(progressLog) = 6
  /\ progressLog[3].value = 50
  /\ progressLog[6].value = 100

\* C7: when fetching or parsing the folder listing raises, the extractor
\* returns an empty list without propagating; main() reports "no images
\* found" and the run ends without an image fetch, a visual search, a
\* summarization or a report.
C7_ExtractionFailureHalts ==
  (pc \notin {"idle", "extract"} /\ folder.raises) =>
    /\ images = <<>>
    /\ Ended
    /\ ui = <<"Error extracting file IDs", "No images found in the folder">>
    /\ calls = <<>> /\ results = <<>> /\ temp_files = {}
    /\ sheet = NoSheet /\ saved = "none"
    /\ progressLog = <<[at |-> "start", value |-> 0], [at |-> "extracted", value |-> 20]>>

\* The folder fetch raised and the run has ended.
C7_Witness ==
  /\ Ended /\ folder.raises /\ Len(ui) = 2

Shown(msg) == \E k \in DOMAIN ui : ui[k] = msg

\* C9: when saving the spreadsheet fails, create_excel_report returns False
\* without raising, the user sees "Failed to create Excel report", the
\* download link is never shown and progress never reaches 100; the link is
\* shown only in runs whose save succeeded.
C9_FailedSaveExposesNothing ==
  /\ saved = "failed" =>
       /\ pc \in {"cleanup", "done"}
       /\ Shown("Failed to create Excel report")
       /\ ~Shown("Download Excel Report")
       /\ ~Shown("Report generated successfully!")
       /\ ~Shown("An error occurred")
       /\ \A k \in DOMAIN progressLog : progressLog[k].value < 100
  /\ Shown("Download Excel Report") => saved = "ok"

\* A run with two results whose save failed has ended.
C9_Witness ==
  /\ Ended /\ saved = "failed" /\ Len(results) = 2
  /\ Shown("Failed to create Excel report")

====
